---------------------------- MODULE Spec2Model ----------------------------
(***************************************************************************)
(* State-machine model of the quiz client: the App shell (App.jsx), the    *)
(* Generate tab and the API client (services/api.js) and the History tab   *)
(* (tabs/HistoryTab.jsx).                                                  *)
(*                                                                         *)
(* Every handler is one action.  An async handler is two actions: the part *)
(* up to its await (which issues the request) and the continuation run     *)
(* when the request resolves or rejects.  A user action is enabled exactly *)
(* when the control that triggers it is rendered and not disabled.  State  *)
(* updates of an unmounted component instance are dropped, as React does.  *)
(* The url input's own attributes (type="url", required) are left to the   *)
(* browser and not modelled: handleSubmit's test of url is the component's *)
(* validation, and the input may hold any text when it runs.               *)
(***************************************************************************)
EXTENDS Integers, Sequences, FiniteSets, TLC

\* ---- bounds ----
MaxInFlight == 2      \* requests that may be unresolved at the same time
MaxQuizId == 2        \* ids (and records) the backend knows
MaxOptions == 2       \* options of a displayed question
MaxQuestions == 1     \* questions of a displayed record

\* ---- optional values (null / a value) ----
None == <<>>
Some(x) == <<x>>

\* ---- values ----
\* the texts the url input may hold, as character sequences: empty, blank
\* (whitespace only) and not blank
Urls == {<<>>, <<" ">>, <<"w">>}
QuizIds == 1..MaxQuizId
\* a QuizRecord, opaque to the client; the backend's record for id k
QuizRecord(k) == [title |-> k]
QuizRecords == {QuizRecord(k) : k \in QuizIds}
HistoryEntry(k) == [id |-> k]
RECURSIVE Distinct(_)
Distinct(s) == IF Len(s) <= 1 THEN TRUE
               ELSE (\A i \in 2..Len(s) : s[i] # s[1]) /\ Distinct(Tail(s))
\* the sequences GET /history may return: the entries carry unique ids
Histories == {[i \in 1..Len(s) |-> HistoryEntry(s[i])] :
                 s \in {t \in UNION {[1..n -> QuizIds] : n \in 0..MaxQuizId} : Distinct(t)}}
\* the ways a request may fail: no response at all (network error), a
\* response without a detail field, or one with a detail string
Errors == { [hasResponse |-> FALSE, hasDetail |-> FALSE, detail |-> ""],
            [hasResponse |-> TRUE,  hasDetail |-> FALSE, detail |-> ""],
            [hasResponse |-> TRUE,  hasDetail |-> TRUE,  detail |-> ""],
            [hasResponse |-> TRUE,  hasDetail |-> TRUE,  detail |-> "scrape failed"] }

ValidationMsg == "Please enter a Wikipedia URL."
UnknownErrorMsg == "An unknown error occurred. Is the backend server running?"
HistoryErrorMsg == "Failed to fetch history."
DetailErrorMsg == "Failed to fetch quiz details."

VARIABLES
    activeTab,     \* App: the selected tab
    generateTab,   \* None, or Some(state of the mounted GenerateQuizTab)
    historyTab,    \* None, or Some(state of the mounted HistoryTab)
    inflight,      \* the requests issued and not yet resolved
    lastEvent      \* the handler or continuation that ran last

vars == <<activeTab, generateTab, historyTab, inflight, lastEvent>>

gen == generateTab[1]
hist == historyTab[1]

\* ---- API client ----
FreeId == CHOOSE i \in 1..MaxInFlight :
             /\ \A r \in inflight : r.id # i
             /\ \A j \in 1..(i-1) : \E r \in inflight : r.id = j

Request(op, owner, method, path, body) ==
    [id |-> FreeId, op |-> op, owner |-> owner, method |-> method,
     path |-> path, body |-> body, live |-> TRUE, latest |-> TRUE]

generateQuiz_ExtraField(url) ==
    Request("generateQuiz", "generate", "POST", <<"generate_quiz">>,
            Some([url |-> url, count |-> 5]))

generateQuiz(url) ==
    Request("generateQuiz", "generate", "POST", <<"generate_quiz">>, Some([url |-> url]))

getHistory ==
    Request("getHistory", "history", "GET", <<"history">>, None)

getQuizById_FixedId(quiz_id) ==
    Request("getQuizById", "history", "GET", <<"quiz", 1>>, None)

getQuizById(quiz_id) ==
    Request("getQuizById", "history", "GET", <<"quiz", quiz_id>>, None)

\* the unresolved requests once r is issued: the mounted instance's older
\* requests of the same operation are no longer its latest
Issue(r) ==
    {[q EXCEPT !.latest = IF q.op = r.op /\ q.live THEN FALSE ELSE q.latest] : q \in inflight}
        \cup {r}

CanIssue == Cardinality(inflight) < MaxInFlight

\* ---- App ----
GenerateInitial == [url |-> <<>>, loading |-> FALSE, error |-> None, quizData |-> None]

HistoryInitial_ModalOpen ==
    [history |-> <<>>, loading |-> TRUE, error |-> None,
     isModalOpen |-> TRUE, selectedQuiz |-> None, modalLoading |-> FALSE]

HistoryInitial == [history |-> <<>>, loading |-> TRUE, error |-> None,
                   isModalOpen |-> FALSE, selectedQuiz |-> None, modalLoading |-> FALSE]

\* the requests left behind when the mounted tab goes away
Orphaned == {[q EXCEPT !.live = FALSE, !.latest = FALSE] : q \in inflight}

IsMounted_SameTab(r) == r.owner = activeTab

\* a resolving request still has its component instance
IsMounted(r) == r.live

Init ==
    /\ activeTab = "generate"
    /\ generateTab = Some(GenerateInitial)
    /\ historyTab = None
    /\ inflight = {}
    /\ lastEvent = [op |-> "init"]

\* TabButton onClick: setActiveTab(tabName); mounting HistoryTab runs its
\* effect, fetchHistory, up to the await
setActiveTab(tabName) ==
    /\ IF tabName = activeTab
         THEN UNCHANGED <<activeTab, generateTab, historyTab, inflight>>
         ELSE /\ activeTab' = tabName
              /\ IF tabName = "generate"
                   THEN /\ generateTab' = Some(GenerateInitial)
                        /\ historyTab' = None
                        /\ inflight' = Orphaned
                   ELSE /\ CanIssue
                        /\ generateTab' = None
                        /\ historyTab' = Some([HistoryInitial EXCEPT !.loading = TRUE, !.error = None])
                        /\ inflight' = Orphaned \cup {getHistory}
    /\ lastEvent' = [op |-> "setActiveTab", tab |-> tabName]

\* ---- Generate tab ----
Falsy(s) == Len(s) = 0

SubmitEnabled_Always == generateTab # None

\* <button type="submit" disabled={loading}>
SubmitEnabled == generateTab # None /\ ~gen.loading

\* <input onChange={(e) => setUrl(e.target.value)}>
setUrl(value) ==
    /\ generateTab # None
    /\ generateTab' = Some([gen EXCEPT !.url = value])
    /\ lastEvent' = [op |-> "setUrl", value |-> value]
    /\ UNCHANGED <<activeTab, historyTab, inflight>>

SubmitState_KeepResult(g) == [g EXCEPT !.loading = TRUE, !.error = None]

\* handleSubmit, lines 40-42
SubmitState(g) == [g EXCEPT !.loading = TRUE, !.error = None, !.quizData = None]

\* handleSubmit up to the await
handleSubmit ==
    /\ SubmitEnabled
    /\ IF Falsy(gen.url)
         THEN /\ generateTab' = Some([gen EXCEPT !.error = Some(ValidationMsg)])
              /\ UNCHANGED inflight
         ELSE /\ CanIssue
              /\ generateTab' = Some(SubmitState(gen))
              /\ inflight' = Issue(generateQuiz(gen.url))
    /\ lastEvent' = [op |-> "handleSubmit", url |-> gen.url, prior |-> gen]
    /\ UNCHANGED <<activeTab, historyTab>>

ErrorMessage_NoFallback(err) == err.detail

\* err.response?.data?.detail || 'An unknown error occurred. ...'
ErrorMessage(err) ==
    IF err.hasResponse /\ err.hasDetail /\ err.detail # ""
      THEN err.detail
      ELSE UnknownErrorMsg

\* handleSubmit after the await: try / finally
GenerateResolved(g, data) == [g EXCEPT !.quizData = Some(data), !.loading = FALSE]

GenerateRejected_KeepLoading(g, err) == [g EXCEPT !.error = Some(ErrorMessage(err))]

\* handleSubmit after the await: catch / finally
GenerateRejected(g, err) == [g EXCEPT !.error = Some(ErrorMessage(err)), !.loading = FALSE]

generateQuizResolves(r, data) ==
    /\ r \in inflight /\ r.op = "generateQuiz"
    /\ inflight' = inflight \ {r}
    /\ IF IsMounted(r) /\ generateTab # None
         THEN generateTab' = Some(GenerateResolved(gen, data))
         ELSE UNCHANGED generateTab
    /\ lastEvent' = [op |-> "resolve", req |-> r, ok |-> TRUE, data |-> data]
    /\ UNCHANGED <<activeTab, historyTab>>

generateQuizRejects(r, err) ==
    /\ r \in inflight /\ r.op = "generateQuiz"
    /\ inflight' = inflight \ {r}
    /\ IF IsMounted(r) /\ generateTab # None
         THEN generateTab' = Some(GenerateRejected(gen, err))
         ELSE UNCHANGED generateTab
    /\ lastEvent' = [op |-> "reject", req |-> r, ok |-> FALSE, err |-> err]
    /\ UNCHANGED <<activeTab, historyTab>>

\* ---- History tab ----
HistoryResolved_Reversed(h, data) ==
    [h EXCEPT !.history = [i \in 1..Len(data) |-> data[Len(data) + 1 - i]],
              !.loading = FALSE]

\* fetchHistory after the await: try / finally
HistoryResolved(h, data) == [h EXCEPT !.history = data, !.loading = FALSE]

\* fetchHistory after the await: catch / finally
HistoryRejected(h) == [h EXCEPT !.error = Some(HistoryErrorMsg), !.loading = FALSE]

getHistoryResolves(r, data) ==
    /\ r \in inflight /\ r.op = "getHistory"
    /\ inflight' = inflight \ {r}
    /\ IF IsMounted(r) /\ historyTab # None
         THEN historyTab' = Some(HistoryResolved(hist, data))
         ELSE UNCHANGED historyTab
    /\ lastEvent' = [op |-> "resolve", req |-> r, ok |-> TRUE, data |-> data]
    /\ UNCHANGED <<activeTab, generateTab>>

getHistoryRejects_Redirect(r) ==
    /\ r \in inflight /\ r.op = "getHistory"
    /\ IF IsMounted(r) /\ historyTab # None
         THEN /\ activeTab' = "generate"
              /\ generateTab' = Some(GenerateInitial)
              /\ historyTab' = None
              /\ inflight' = {[q EXCEPT !.live = FALSE, !.latest = FALSE] : q \in inflight \ {r}}
         ELSE /\ inflight' = inflight \ {r}
              /\ UNCHANGED <<activeTab, generateTab, historyTab>>
    /\ lastEvent' = [op |-> "reject", req |-> r, ok |-> FALSE]

getHistoryRejects(r) ==
    /\ r \in inflight /\ r.op = "getHistory"
    /\ inflight' = inflight \ {r}
    /\ IF IsMounted(r) /\ historyTab # None
         THEN historyTab' = Some(HistoryRejected(hist))
         ELSE UNCHANGED historyTab
    /\ lastEvent' = [op |-> "reject", req |-> r, ok |-> FALSE]
    /\ UNCHANGED <<activeTab, generateTab>>

\* if (loading) return ...; if (error) return ...; otherwise the table
TableRendered == historyTab # None /\ ~hist.loading /\ hist.error = None

\* the rows' Details buttons: one per entry of history
DetailsButtons ==
    IF TableRendered THEN {hist.history[i].id : i \in 1..Len(hist.history)} ELSE {}

\* <tbody>: the placeholder row when history is empty, else one row per
\* entry, in the order of history.map
PlaceholderRow == [placeholder |-> "No quizzes generated yet."]

HistoryRows ==
    IF ~TableRendered THEN <<>>
    ELSE IF Len(hist.history) = 0 THEN <<PlaceholderRow>>
    ELSE [i \in 1..Len(hist.history) |->
            [key |-> hist.history[i].id, item |-> hist.history[i]]]

\* <Modal isOpen={isModalOpen} onClose={closeModal}>
ModalRendered == TableRendered /\ hist.isModalOpen

\* handleDetailsClick, lines 34-36
DetailsState(h) == [h EXCEPT !.modalLoading = TRUE, !.isModalOpen = TRUE, !.selectedQuiz = None]

\* handleDetailsClick up to the await
handleDetailsClick(quizId) ==
    /\ quizId \in DetailsButtons
    /\ CanIssue
    /\ historyTab' = Some(DetailsState(hist))
    /\ inflight' = Issue(getQuizById(quizId))
    /\ lastEvent' = [op |-> "handleDetailsClick", quizId |-> quizId,
                     held |-> hist.selectedQuiz]
    /\ UNCHANGED <<activeTab, generateTab>>

DetailResolved_ClearsError(h, data) ==
    [h EXCEPT !.selectedQuiz = Some(data), !.modalLoading = FALSE, !.error = None]

\* handleDetailsClick after the await: try / finally
DetailResolved(h, data) == [h EXCEPT !.selectedQuiz = Some(data), !.modalLoading = FALSE]

DetailRejected_KeepOpen(h) ==
    [h EXCEPT !.error = Some(DetailErrorMsg), !.modalLoading = FALSE]

\* handleDetailsClick after the await: catch / finally
DetailRejected(h) ==
    [h EXCEPT !.error = Some(DetailErrorMsg), !.isModalOpen = FALSE, !.modalLoading = FALSE]

\* the backend answers GET /quiz/X with the record stored for X
getQuizByIdResolves(r) ==
    /\ r \in inflight /\ r.op = "getQuizById"
    /\ inflight' = inflight \ {r}
    /\ IF IsMounted(r) /\ historyTab # None
         THEN historyTab' = Some(DetailResolved(hist, QuizRecord(r.path[2])))
         ELSE UNCHANGED historyTab
    /\ lastEvent' = [op |-> "resolve", req |-> r, ok |-> TRUE, data |-> QuizRecord(r.path[2])]
    /\ UNCHANGED <<activeTab, generateTab>>

getQuizByIdRejects(r) ==
    /\ r \in inflight /\ r.op = "getQuizById"
    /\ inflight' = inflight \ {r}
    /\ IF IsMounted(r) /\ historyTab # None
         THEN historyTab' = Some(DetailRejected(hist))
         ELSE UNCHANGED historyTab
    /\ lastEvent' = [op |-> "reject", req |-> r, ok |-> FALSE]
    /\ UNCHANGED <<activeTab, generateTab>>

closeModal ==
    /\ ModalRendered
    /\ historyTab' = Some([hist EXCEPT !.isModalOpen = FALSE, !.selectedQuiz = None])
    /\ lastEvent' = [op |-> "closeModal"]
    /\ UNCHANGED <<activeTab, generateTab, inflight>>

Next ==
    \/ \E t \in {"generate", "history"} : setActiveTab(t)
    \/ \E u \in Urls : setUrl(u)
    \/ handleSubmit
    \/ \E r \in inflight, d \in QuizRecords : generateQuizResolves(r, d)
    \/ \E r \in inflight, e \in Errors : generateQuizRejects(r, e)
    \/ \E r \in inflight, h \in Histories : getHistoryResolves(r, h)
    \/ \E r \in inflight : getHistoryRejects(r)
    \/ \E q \in QuizIds : handleDetailsClick(q)
    \/ \E r \in inflight : getQuizByIdResolves(r)
    \/ \E r \in inflight : getQuizByIdRejects(r)
    \/ closeModal

Spec == Init /\ [][Next]_vars

\* ---- Quiz display ----
\* the records handed to QuizDisplay: every question has a sequence of
\* options and an answer that may or may not be one of them
OptionTexts == {"a", "b", "c"}
Questions ==
    [question : {"q"},
     options : UNION {[1..n -> OptionTexts] : n \in 0..MaxOptions},
     answer : OptionTexts \cup {"z"}]
DisplayRecords ==
    {[title |-> 1, quiz |-> qs] : qs \in UNION {[1..n -> Questions] : n \in 0..MaxQuestions}}

OptionMarked_First(option, q) == option = q.options[1]

\* option === q.answer ? 'bg-green-100 ...' : 'text-gray-700'
OptionMarked(option, q) == option = q.answer

\* QuizDisplay: nothing without a record, else for every question the
\* marking of each of its options
QuizDisplay(quizData) ==
    IF quizData = None THEN None
    ELSE Some([i \in 1..Len(quizData[1].quiz) |->
                 [j \in 1..Len(quizData[1].quiz[i].options) |->
                    OptionMarked(quizData[1].quiz[i].options[j], quizData[1].quiz[i])]])

\* the Generate tab holding a record it received
InitDisplay ==
    /\ activeTab = "generate"
    /\ generateTab \in {Some([url |-> <<"w">>, loading |-> FALSE, error |-> None,
                              quizData |-> Some(d)]) : d \in DisplayRecords}
    /\ historyTab = None
    /\ inflight = {}
    /\ lastEvent = [op |-> "init"]

\* {quizData && <QuizDisplay quizData={quizData} />}
QuizDisplayRender ==
    /\ lastEvent.op = "init"
    /\ generateTab # None /\ gen.quizData # None
    /\ lastEvent' = [op |-> "QuizDisplay", out |-> QuizDisplay(gen.quizData)]
    /\ UNCHANGED <<activeTab, generateTab, historyTab, inflight>>

NextDisplay == QuizDisplayRender

SpecDisplay == InitDisplay /\ [][NextDisplay]_vars

\* ======================= claims =======================
Settled(e) == e.op \in {"resolve", "reject"}
Blank(s) == \A i \in 1..Len(s) : s[i] = " "
\* the requests issued by the step
Issued == {r \in inflight' : \A q \in inflight : q.id # r.id}

\* C1: a submit with an empty or blank (whitespace only) url issues no
\* request and leaves the tab showing 'Please enter a Wikipedia URL.'.
C1_BlankSubmitRejected ==
    [][ (lastEvent'.op = "handleSubmit" /\ Blank(lastEvent'.url))
          => /\ Issued = {}
             /\ generateTab'[1].error = Some(ValidationMsg) ]_vars

\* C2: one submit with a non-empty url issues exactly one request: a POST
\* to /generate_quiz whose body is {url} with the value the input held at
\* submit time, and no other field.
C2_SubmitPostsUrl ==
    [][ (lastEvent'.op = "handleSubmit" /\ Len(gen.url) > 0)
          => /\ Cardinality(Issued) = 1
             /\ Cardinality(inflight') = Cardinality(inflight) + 1
             /\ \A r \in Issued :
                  /\ r.method = "POST"
                  /\ r.path = <<"generate_quiz">>
                  /\ r.body # None
                  /\ DOMAIN r.body[1] = {"url"}
                  /\ r.body[1].url = gen.url ]_vars

C2_Witness ==
    /\ lastEvent.op = "handleSubmit"
    /\ lastEvent.url = <<"w">>
    /\ \E r \in inflight :
         r.live /\ r.method = "POST" /\ r.body = Some([url |-> <<"w">>])

\* C3: when a generate request of the mounted tab resolves, the tab holds
\* the returned record, no error, and is not loading; when it fails, the
\* tab holds the failure's detail message if there is a (non-empty) one and
\* the generic message otherwise, no record, and is not loading.
C3_GenerateOutcome ==
    (Settled(lastEvent) /\ lastEvent.req.op = "generateQuiz" /\ lastEvent.req.live)
      => /\ generateTab # None
         /\ ~gen.loading
         /\ lastEvent.ok =>
              gen.quizData = Some(lastEvent.data) /\ gen.error = None
         /\ ~lastEvent.ok =>
              /\ gen.quizData = None
              /\ gen.error = Some(IF /\ lastEvent.err.hasResponse
                                     /\ lastEvent.err.hasDetail
                                     /\ lastEvent.err.detail # ""
                                    THEN lastEvent.err.detail
                                    ELSE UnknownErrorMsg)

C3_Witness ==
    /\ lastEvent.op = "reject"
    /\ lastEvent.req.op = "generateQuiz" /\ lastEvent.req.live
    /\ lastEvent.err.hasDetail
    /\ gen.error = Some("scrape failed")
    /\ ~gen.loading

\* C4: after a submit with a non-empty url, whatever the tab held before,
\* the tab is loading and holds neither a result nor an error while the
\* request is unresolved.
C4_SubmitResets ==
    (lastEvent.op = "handleSubmit" /\ Len(lastEvent.url) > 0)
      => /\ gen.loading
         /\ gen.error = None
         /\ gen.quizData = None
         /\ \E r \in inflight : r.op = "generateQuiz" /\ r.live /\ r.latest

C4_Witness ==
    /\ lastEvent.op = "handleSubmit"
    /\ Len(lastEvent.url) > 0
    /\ lastEvent.prior.error # None
    /\ lastEvent.prior.quizData # None
    /\ gen.loading /\ gen.error = None /\ gen.quizData = None

\* C5: a click on Details for id X issues one GET /quiz/X, also when X's
\* record was already fetched, and leaves the modal open, loading and
\* without a record.
C5_DetailsFetches ==
    [][ lastEvent'.op = "handleDetailsClick"
          => /\ Cardinality(Issued) = 1
             /\ \A r \in Issued :
                  /\ r.method = "GET"
                  /\ r.path = <<"quiz", lastEvent'.quizId>>
                  /\ r.body = None
             /\ historyTab'[1].isModalOpen
             /\ historyTab'[1].modalLoading
             /\ historyTab'[1].selectedQuiz = None ]_vars

C5_Witness ==
    /\ lastEvent.op = "handleDetailsClick"
    /\ lastEvent.held = Some(QuizRecord(lastEvent.quizId))
    /\ \E r \in inflight : r.live /\ r.latest /\ r.path = <<"quiz", lastEvent.quizId>>
    /\ hist.isModalOpen /\ hist.modalLoading /\ hist.selectedQuiz = None

\* C6: once the modal is closed and no record is held, this stays so until
\* Details is clicked again (or the tab goes away), also when a detail
\* response arrives after the close.
ClosedEmpty ==
    historyTab # None /\ ~hist.isModalOpen /\ hist.selectedQuiz = None

C6_StaysClosed ==
    [][ (ClosedEmpty /\ lastEvent'.op \notin {"handleDetailsClick", "setActiveTab"})
          => ClosedEmpty' ]_vars

\* C7: when a detail request of the mounted tab fails, the modal is closed,
\* the modal is not loading, no record is held and the error slot holds
\* 'Failed to fetch quiz details.'.
C7_DetailFailure ==
    (lastEvent.op = "reject" /\ lastEvent.req.op = "getQuizById" /\ lastEvent.req.live)
      => /\ ~hist.isModalOpen
         /\ ~hist.modalLoading
         /\ hist.selectedQuiz = None
         /\ hist.error = Some(DetailErrorMsg)

C9_OverlapPossible ==
    (generateTab # None /\ \E r \in inflight : r.op = "generateQuiz" /\ r.live)
      => SubmitEnabled

\* C9 (amended): submissions of one tab instance never overlap, and the
\* outcome the tab takes is always that of its most recent submission.
C9_NoStaleOutcome ==
    /\ Cardinality({r \in inflight : r.op = "generateQuiz" /\ r.live}) <= 1
    /\ (Settled(lastEvent) /\ lastEvent.req.op = "generateQuiz" /\ lastEvent.req.live)
         => lastEvent.req.latest

C9_Witness ==
    /\ lastEvent.op = "resolve"
    /\ lastEvent.req.op = "generateQuiz" /\ lastEvent.req.live /\ lastEvent.req.latest
    /\ gen.quizData = Some(lastEvent.data)
    /\ \E q \in inflight : q.op = "generateQuiz" /\ ~q.live

\* C10: the response or failure of a request whose tab instance has been
\* unmounted changes nothing of the App or of the mounted tab.
C10_StaleIgnored ==
    [][ (Settled(lastEvent') /\ ~lastEvent'.req.live)
          => UNCHANGED <<activeTab, generateTab, historyTab>> ]_vars

C10_Witness ==
    /\ Settled(lastEvent)
    /\ ~lastEvent.req.live
    /\ lastEvent.req.owner = activeTab

\* C11: the App starts on the generate tab with that tab in its initial
\* state; at every moment the mounted tab is the selected one and the other
\* is not mounted; a switch to the other tab mounts it in its initial state
\* (History: loading, with a new GET /history), whatever was held before.
C11_OneTabMounted ==
    /\ activeTab = "generate"
    /\ generateTab = Some([url |-> <<>>, loading |-> FALSE, error |-> None, quizData |-> None])
    /\ [](/\ activeTab \in {"generate", "history"}
          /\ (generateTab # None) <=> (activeTab = "generate")
          /\ (historyTab # None) <=> (activeTab = "history"))
    /\ [][ activeTab' # activeTab =>
             IF activeTab' = "generate"
               THEN generateTab' = Some([url |-> <<>>, loading |-> FALSE,
                                         error |-> None, quizData |-> None])
               ELSE /\ historyTab' = Some([history |-> <<>>, loading |-> TRUE,
                                           error |-> None, isModalOpen |-> FALSE,
                                           selectedQuiz |-> None, modalLoading |-> FALSE])
                    /\ Cardinality(Issued) = 1
                    /\ \A r \in Issued :
                         r.method = "GET" /\ r.path = <<"history">> /\ r.live ]_vars

C11_Witness ==
    /\ lastEvent.op = "setActiveTab"
    /\ activeTab = "generate"
    /\ gen = [url |-> <<>>, loading |-> FALSE, error |-> None, quizData |-> None]
    /\ \E q \in inflight : q.op = "generateQuiz" /\ ~q.live
    /\ \E q \in inflight : q.op = "getQuizById" /\ ~q.live

\* C12: mounting the History tab issues one GET /history and leaves the
\* list loading; when that request succeeds the table shows one row per
\* returned entry, in the returned order, and the placeholder row exactly
\* when nothing was returned; when it fails the error slot holds 'Failed to
\* fetch history.'.
C12_HistoryList ==
    /\ []((lastEvent.op = "resolve" /\ lastEvent.req.op = "getHistory" /\ lastEvent.req.live)
           => /\ TableRendered
              /\ (lastEvent.data = <<>>) <=> (HistoryRows = <<PlaceholderRow>>)
              /\ lastEvent.data # <<>> =>
                   /\ Len(HistoryRows) = Len(lastEvent.data)
                   /\ \A i \in 1..Len(lastEvent.data) :
                        HistoryRows[i].item = lastEvent.data[i])
    /\ []((lastEvent.op = "reject" /\ lastEvent.req.op = "getHistory" /\ lastEvent.req.live)
           => /\ hist.error = Some(HistoryErrorMsg)
              /\ ~hist.loading
              /\ HistoryRows = <<>>)
    /\ [][ (historyTab = None /\ historyTab' # None)
             => /\ historyTab'[1].loading
                /\ Cardinality(Issued) = 1
                /\ \A r \in Issued :
                     r.op = "getHistory" /\ r.method = "GET" /\ r.path = <<"history">> ]_vars

C12_Witness ==
    /\ lastEvent.op = "resolve"
    /\ lastEvent.req.op = "getHistory" /\ lastEvent.req.live
    /\ lastEvent.data = <<HistoryEntry(2), HistoryEntry(1)>>
    /\ Len(HistoryRows) = 2
    /\ HistoryRows[1].item.id = 2 /\ HistoryRows[2].item.id = 1

\* C13: for every question of a displayed record the options marked as the
\* answer are exactly those equal to the question's answer: exactly one
\* when the options are unique and one of them is the answer, none when no
\* option is the answer.
Marked(out, i) == {j \in 1..Len(out[i]) : out[i][j]}

C13_AnswerMarked ==
    lastEvent.op = "QuizDisplay" =>
      /\ lastEvent.out # None
      /\ Len(lastEvent.out[1]) = Len(gen.quizData[1].quiz)
      /\ \A i \in 1..Len(gen.quizData[1].quiz) :
           LET q == gen.quizData[1].quiz[i]
               hits == {j \in 1..Len(q.options) : q.options[j] = q.answer}
           IN /\ Len(lastEvent.out[1][i]) = Len(q.options)
              /\ Marked(lastEvent.out[1], i) = hits
              /\ (Distinct(q.options) /\ hits # {})
                   => Cardinality(Marked(lastEvent.out[1], i)) = 1
              /\ hits = {} => Marked(lastEvent.out[1], i) = {}

C13_Witness ==
    /\ lastEvent.op = "QuizDisplay"
    /\ Len(gen.quizData[1].quiz) = 1
    /\ gen.quizData[1].quiz[1].options = <<"a", "b">>
    /\ gen.quizData[1].quiz[1].answer = "b"
    /\ Marked(lastEvent.out[1], 1) = {2}

\* C14: no step other than a tab button click changes the selected tab or
\* mounts or unmounts a tab: request failures and validation errors stay in
\* the tab in which they occur.
C14_ErrorsStayInTab ==
    [][ lastEvent'.op # "setActiveTab"
          => /\ activeTab' = activeTab
             /\ (generateTab' = None) <=> (generateTab = None)
             /\ (historyTab' = None) <=> (historyTab = None) ]_vars

C14_Witness ==
    /\ lastEvent.op = "reject"
    /\ lastEvent.req.op = "getQuizById" /\ lastEvent.req.live
    /\ activeTab = "history"
    /\ historyTab # None
    /\ hist.error = Some(DetailErrorMsg)

\* C15: while the detail request for the row clicked last is unresolved,
\* the success or failure of an older detail request, issued for another
\* row, changes nothing of the History tab: it does not replace the shown
\* record, clear the loading indicator, close the modal or set the error.
C15_OnlyLatestDetail ==
    [][ (/\ Settled(lastEvent')
         /\ lastEvent'.req.op = "getQuizById"
         /\ lastEvent'.req.live
         /\ ~lastEvent'.req.latest
         /\ \E q \in inflight' : /\ q.op = "getQuizById" /\ q.live /\ q.latest
                                  /\ q.path # lastEvent'.req.path)
          => UNCHANGED historyTab ]_vars

\* C16: the Generate tab never holds an error message and a QuizRecord at
\* the same time.
C16_ErrorOrResult ==
    generateTab # None => ~(gen.error # None /\ gen.quizData # None)

\* C17: the Generate tab is loading exactly when a generate request issued
\* by the mounted instance is unresolved, so the submit button is enabled
\* only when none is.
PendingGenerate == {r \in inflight : r.op = "generateQuiz" /\ r.live}

C17_LoadingIffPending ==
    generateTab # None =>
      /\ gen.loading <=> (PendingGenerate # {})
      /\ SubmitEnabled => PendingGenerate = {}

C17_Witness ==
    /\ generateTab # None
    /\ gen.loading
    /\ PendingGenerate # {}
    /\ \E q \in inflight : q.op = "generateQuiz" /\ ~q.live

\* C18: whenever the modal of the History tab is open, the list is not
\* loading and the error slot is empty.
C18_ModalOnlyOverTable ==
    (historyTab # None /\ hist.isModalOpen) => (~hist.loading /\ hist.error = None)

C18_Witness ==
    /\ lastEvent.op = "resolve"
    /\ lastEvent.req.op = "getQuizById" /\ lastEvent.req.live
    /\ hist.isModalOpen
    /\ hist.selectedQuiz # None
    /\ \E q \in inflight : q.op = "getQuizById" /\ q.live

\* C19: once the error slot of the History tab is set, every later step of
\* the same tab instance leaves it set, renders neither the table nor the
\* modal and issues no request.
C19_ErrorIsFinal ==
    [][ (historyTab # None /\ hist.error # None /\ historyTab' # None)
          => /\ historyTab'[1].error # None
             /\ ~TableRendered'
             /\ DetailsButtons' = {}
             /\ ~ModalRendered'
             /\ Issued = {} ]_vars

C19_Witness ==
    /\ lastEvent.op = "resolve"
    /\ lastEvent.req.op = "getQuizById" /\ lastEvent.req.live
    /\ hist.error # None
    /\ hist.selectedQuiz # None

=============================================================================
